---------------------------- MODULE Spec2Model ----------------------------
(***************************************************************************)
(* The filter / aggregate / rank pipeline of the SuperStore KPI dashboard  *)
(* (src/app.py).  One run of the script is one user interaction: the       *)
(* script is executed top to bottom, every widget returning the value the  *)
(* user has chosen for it.  pc is the script's position (the widget it is  *)
(* about to read); every action is the widget's return value together     *)
(* with all the statements up to the next widget.                          *)
(*                                                                         *)
(* Representation.                                                         *)
(*  - A DataFrame is a sequence of rows; a row is a record of its columns  *)
(*    plus idx, its pandas index label (its position in the workbook).     *)
(*  - Column values are strings; Python's order on them (sorted, groupby)  *)
(*    is given by Collation.                                               *)
(*  - A date is the integer yyyymmdd, which orders as the date does.       *)
(*  - A quarter label "2016Q1" is the pair <<2016, 1>>, which orders as    *)
(*    the label's text does.                                               *)
(*  - Sales, Quantity and Profit are integers and a margin rate is an      *)
(*    exact fraction [num, den] in lowest terms with den > 0: floating     *)
(*    point rounding is not modelled.                                      *)
(*  - The sheet has no missing cells.                                      *)
(***************************************************************************)
EXTENDS Integers, Sequences, FiniteSets

\* ------------------------------------------------------------------ bounds

\* Rows of the sheet the loaded workbooks are taken from.
SheetLen == 12

\* Longest short workbook (a window of consecutive sheet rows).
MaxRows == 3

\* ------------------------------------------------------- program constants

\* product_grouped.head(10)
TopN == 10

All == "All"

kpi_options == <<"Sales", "Quantity", "Profit", "Margin Rate">>

\* ----------------------------------------------------------- Python order

\* The strings of the model in Python's str order (code points).
Collation ==
  << "All", "CA", "California", "Chairs", "Consumer", "Corporate", "East",
     "Furniture", "NY", "New York", "Ontario",
     "P01", "P02", "P03", "P04", "P05", "P06", "P07", "P08", "P09", "P10",
     "P11", "P12", "P13", "P14",
     "Phones", "Tables", "Technology", "West" >>

Rank(s) == CHOOSE i \in 1..Len(Collation) : Collation[i] = s

Range(seq) == { seq[i] : i \in 1..Len(seq) }

Min(S) == CHOOSE m \in S : \A x \in S : m <= x

Max(S) == CHOOSE m \in S : \A x \in S : x <= m

\* sorted(values): the distinct values of S as a list in Python's order.
RECURSIVE sorted(_)
sorted(S) ==
  IF S = {} THEN <<>>
  ELSE LET lo == CHOOSE v \in S : \A w \in S : Rank(v) <= Rank(w)
       IN  <<lo>> \o sorted(S \ {lo})

\* ------------------------------------------------------------- arithmetic

Abs(n) == IF n < 0 THEN -n ELSE n

RECURSIVE Gcd(_, _)
Gcd(a, b) == IF b = 0 THEN a ELSE Gcd(b, a % b)

\* The fraction n / d (d # 0) in lowest terms, den > 0.
Frac(n, d) ==
  LET g == Gcd(Abs(n), Abs(d))
      s == IF d < 0 THEN -1 ELSE 1
  IN  [num |-> (s * n) \div g, den |-> (s * d) \div g]

FracOfInt(n) == [num |-> n, den |-> 1]

FracAdd(a, b) == Frac(a.num * b.den + b.num * a.den, a.den * b.den)

FracLess(a, b) == a.num * b.den < b.num * a.den

\* Series.replace(0, 1)
replace_0_1(x) == IF x = 0 THEN 1 ELSE x

\* Profit / Sales.replace(0, 1), element-wise.
GroupMarginRate(profit, sales) == Frac(profit, replace_0_1(sales))

\* ------------------------------------------------------------------ dates

\* Timestamp.year
YearOf(d) == d \div 10000

MonthOf(d) == (d \div 100) % 100

\* dt.to_period('Q').astype(str)
QuarterOf(d) == <<YearOf(d), ((MonthOf(d) - 1) \div 3) + 1>>

\* The days the date widgets let the user pick (all inside the sheet's span).
Calendar == {20151120, 20160110, 20160215, 20160405}


\* ------------------------------------------------------------ the workbook

Row(d, reg, st, cat, sub, seg, prod, s, q, p) ==
  [OrderDate |-> d, Region |-> reg, State |-> st, Category |-> cat,
   SubCategory |-> sub, Segment |-> seg, ProductName |-> prod,
   Sales |-> s, Quantity |-> q, Profit |-> p]

\* A miniature "Sample - Superstore" sheet.  Row 2 is a zero-sales order
\* with a profit of 5; rows 1 and 3 are the same product on the same day;
\* rows 5.. are one product each, with ties between products in every KPI.
Sheet ==
  << Row(20160405, "West", "California", "Technology", "Phones", "Corporate", "P07",  4, 2,  1),
     Row(20151120, "East", "New York",   "Furniture",  "Chairs", "Consumer",  "P03",  0, 1,  5),
     Row(20160405, "West", "California", "Technology", "Phones", "Consumer",  "P07",  2, 1,  1),
     Row(20160110, "East", "Ontario",    "Furniture",  "Tables", "Consumer",  "P05",  3, 3, -2),
     Row(20160405, "West", "CA",         "Technology", "Phones", "Consumer",  "P01",  5, 1,  2),
     Row(20160110, "West", "California", "Technology", "Phones", "Consumer",  "P02",  6, 2,  3),
     Row(20160405, "West", "California", "Technology", "Phones", "Consumer",  "P04",  1, 4,  0),
     Row(20160405, "West", "California", "Technology", "Phones", "Consumer",  "P06",  2, 5,  1),
     Row(20160405, "West", "California", "Technology", "Phones", "Consumer",  "P08",  7, 9, -1),
     Row(20160405, "West", "California", "Technology", "Phones", "Consumer",  "P09",  8, 6,  4),
     Row(20160405, "West", "California", "Technology", "Phones", "Consumer",  "P10",  9, 7,  6),
     Row(20160405, "West", "California", "Technology", "Phones", "Consumer",  "P11", 10, 8,  7),
     Row(20160405, "West", "California", "Technology", "Phones", "Consumer",  "P12", 11, 10, 8),
     Row(20160405, "West", "California", "Technology", "Phones", "Consumer",  "P13", 12, 11, 9) >>

\* pd.read_excel of a workbook holding sheet rows first..last: the rows in
\* order, each with its index label.  Order Date is already a datetime.
load_data(first, last) ==
  [i \in 1..(last - first + 1) |->
     [k \in DOMAIN Sheet[first + i - 1] \cup {"idx"} |->
        IF k = "idx" THEN i ELSE Sheet[first + i - 1][k]]]

\* The workbooks of the model: every window of at most MaxRows consecutive
\* sheet rows, and the whole sheet.
Workbooks ==
  { load_data(w[1], w[2]) :
      w \in { v \in (1..SheetLen) \X (1..SheetLen) :
                /\ v[1] <= v[2]
                /\ (v[2] - v[1] < MaxRows \/ (v[1] = 1 /\ v[2] = SheetLen)) } }

\* ------------------------------------------------------------- DataFrames

\* frame[col].dropna().unique(), as a set.
unique(frame, col) == { frame[i][col] : i \in 1..Len(frame) }

\* frame[col].sum() over the rows with positions in I (0 for no rows).
RECURSIVE SumOver(_, _, _)
SumOver(frame, col, I) ==
  IF I = {} THEN 0
  ELSE LET i == CHOOSE j \in I : TRUE
       IN  frame[i][col] + SumOver(frame, col, I \ {i})

sum(frame, col) == SumOver(frame, col, DOMAIN frame)

\* Lexicographic order on tuples of integers of one length.
RECURSIVE LexLess(_, _)
LexLess(a, b) ==
  /\ a # <<>>
  /\ \/ Head(a) < Head(b)
     \/ Head(a) = Head(b) /\ LexLess(Tail(a), Tail(b))

\* The keys K as a list in ascending order (groupby sorts its keys); ord[k]
\* is the tuple of integers that orders key k.
SortKeys(K, ord) ==
  [n \in 1..Cardinality(K) |->
     CHOOSE k \in K :
       Cardinality({ m \in K : LexLess(ord[m], ord[k]) }) = n - 1]

\* groupby_agg with Sales aggregated by "first" in place of "sum".
groupby_agg_first(frame, keycol, ord) ==
  LET keys == SortKeys(Range(keycol), ord)
  IN  [n \in 1..Len(keys) |->
         LET I == { i \in 1..Len(frame) : keycol[i] = keys[n] }
             s == frame[Min(I)].Sales
             p == SumOver(frame, "Profit", I)
         IN  [key |-> keys[n],
              Sales |-> s,
              Quantity |-> SumOver(frame, "Quantity", I),
              Profit |-> p,
              MarginRate |-> GroupMarginRate(p, s)]]

\* frame.groupby(keys).agg({"Sales": "sum", "Quantity": "sum", "Profit":
\* "sum"}).reset_index(), then the Margin Rate column: one row per key
\* present in the frame, in ascending key order.  keycol[i] is the key of
\* row i.
groupby_agg(frame, keycol, ord) ==
  LET keys == SortKeys(Range(keycol), ord)
  IN  [n \in 1..Len(keys) |->
         LET I == { i \in 1..Len(frame) : keycol[i] = keys[n] }
             s == SumOver(frame, "Sales", I)
             p == SumOver(frame, "Profit", I)
         IN  [key |-> keys[n],
              Sales |-> s,
              Quantity |-> SumOver(frame, "Quantity", I),
              Profit |-> p,
              MarginRate |-> GroupMarginRate(p, s)]]

\* The value of column kpi of a grouped row, as a fraction.
KpiOf(g, kpi) ==
  CASE kpi = "Sales"       -> FracOfInt(g.Sales)
    [] kpi = "Quantity"    -> FracOfInt(g.Quantity)
    [] kpi = "Profit"      -> FracOfInt(g.Profit)
    [] kpi = "Margin Rate" -> g.MarginRate

\* us.states.lookup(x).abbr if us.states.lookup(x) else x: a state's name or
\* abbreviation gives its abbreviation, anything else passes through.
state_abbr(x) ==
  CASE x = "California" -> "CA"
    [] x = "CA"         -> "CA"
    [] x = "New York"   -> "NY"
    [] x = "NY"         -> "NY"
    [] OTHER            -> x

\* frame[col] = values: the column is added, or overwritten.
SetColumn(frame, col, values) ==
  [i \in DOMAIN frame |->
     [k \in DOMAIN frame[i] \cup {col} |->
        IF k = col THEN values[i] ELSE frame[i][k]]]

\* setitem on a target that is a view of the other frames: the write goes
\* through to their rows of the same index label.
setitem_write_through(ns, target, col, values) ==
  [name \in DOMAIN ns |->
     IF name = target
     THEN SetColumn(ns[name], col, values)
     ELSE [i \in DOMAIN ns[name] |->
             LET hit == { j \in DOMAIN ns[target] :
                            ns[target][j].idx = ns[name][i].idx }
             IN  IF hit = {} THEN ns[name][i]
                 ELSE [k \in DOMAIN ns[name][i] \cup {col} |->
                         IF k = col THEN values[Min(hit)]
                         ELSE ns[name][i][k]]]]

\* ns[target][col] = values: a column write in the script's namespace ns
\* (the frames by variable name).  Every frame the script writes to is an
\* object of its own (a .copy() or the result of a boolean mask), so the
\* write changes the target and nothing else.
setitem(ns, target, col, values) ==
  [ns EXCEPT ![target] = SetColumn(ns[target], col, values)]

\* ["All"] + values: the options of a select box.
selectbox_options(values) == <<All>> \o values

\* filter_by with != in place of ==.
filter_by_complement(frame, col, selected) ==
  IF selected # All
  THEN SelectSeq(frame, LAMBDA row : row[col] # selected)
  ELSE frame

\* if selected != "All": frame[frame[col] == selected]  else: frame
filter_by(frame, col, selected) ==
  IF selected # All
  THEN SelectSeq(frame, LAMBDA row : row[col] = selected)
  ELSE frame

\* The bounds offered by the two date widgets.
date_bounds(original, frame) ==
  IF frame = <<>>
  THEN [min_date |-> Min(unique(original, "OrderDate")),
        max_date |-> Max(unique(original, "OrderDate"))]
  ELSE [min_date |-> Min(unique(frame, "OrderDate")),
        max_date |-> Max(unique(frame, "OrderDate"))]

\* date_filter without its upper bound.
date_filter_no_upper(frame, from, to) ==
  SelectSeq(frame, LAMBDA row : row.OrderDate >= from)

\* date_filter that puts an inverted range in order first.
date_filter_swapping(frame, from, to) ==
  SelectSeq(frame, LAMBDA row :
    IF from <= to
    THEN row.OrderDate >= from /\ row.OrderDate <= to
    ELSE row.OrderDate >= to /\ row.OrderDate <= from)

\* frame[(frame["Order Date"] >= from) & (frame["Order Date"] <= to)]
date_filter(frame, from, to) ==
  SelectSeq(frame, LAMBDA row : row.OrderDate >= from /\ row.OrderDate <= to)

\* The result of a floating point division by 0.0 (nan or inf).
NotANumber == [num |-> 0, den |-> 0]

\* kpi_calculation without its guards: the sums of no rows are 0 and the
\* division by a total of 0.0 gives no number.
kpi_calculation_unguarded(frame) ==
  LET s == sum(frame, "Sales")
      p == sum(frame, "Profit")
  IN  [total_sales |-> s,
       total_quantity |-> sum(frame, "Quantity"),
       total_profit |-> p,
       margin_rate |-> IF s # 0 THEN Frac(p, s) ELSE NotANumber]

\* The four KPI tiles.
kpi_calculation(frame) ==
  IF frame = <<>>
  THEN [total_sales |-> 0, total_quantity |-> 0, total_profit |-> 0,
        margin_rate |-> FracOfInt(0)]
  ELSE LET s == sum(frame, "Sales")
           p == sum(frame, "Profit")
       IN  [total_sales |-> s,
            total_quantity |-> sum(frame, "Quantity"),
            total_profit |-> p,
            margin_rate |-> IF s # 0 THEN Frac(p, s) ELSE FracOfInt(0)]

\* ------------------------------------------------------------ grouped views

\* frame[col] as a list.
Column(frame, col) == [i \in DOMAIN frame |-> frame[i][col]]

group_daily(frame) ==
  LET keycol == Column(frame, "OrderDate")
  IN  groupby_agg(frame, keycol, [k \in Range(keycol) |-> <<k>>])

group_product(frame) ==
  LET keycol == Column(frame, "ProductName")
  IN  groupby_agg(frame, keycol, [k \in Range(keycol) |-> <<Rank(k)>>])

group_year_segment(frame) ==
  LET keycol == [i \in DOMAIN frame |-> <<frame[i].Year, frame[i].Segment>>]
  IN  groupby_agg(frame, keycol, [k \in Range(keycol) |-> <<k[1], Rank(k[2])>>])

group_state(frame) ==
  LET keycol == Column(frame, "State")
  IN  groupby_agg(frame, keycol, [k \in Range(keycol) |-> <<Rank(k)>>])

group_quarter(frame) ==
  LET keycol == Column(frame, "Quarter")
  IN  groupby_agg(frame, keycol, [k \in Range(keycol) |-> k])

group_quarter_category(frame) ==
  LET keycol == [i \in DOMAIN frame |-> <<frame[i].Quarter, frame[i].Category>>]
  IN  groupby_agg(frame, keycol, [k \in Range(keycol) |-> k[1] \o <<Rank(k[2])>>])

\* frame[col].sum() of a column of fractions over the rows in I.
RECURSIVE FracSumOver(_, _, _)
FracSumOver(frame, col, I) ==
  IF I = {} THEN FracOfInt(0)
  ELSE LET i == CHOOSE j \in I : TRUE
       IN  FracAdd(frame[i][col], FracSumOver(frame, col, I \ {i}))

\* df.groupby(["Category", "Quarter"]).agg({"Sales": "sum", "Profit": "sum",
\* "Quantity": "sum", "Margin Rate": "sum"}).reset_index(): the Margin Rate
\* of a group is the sum of its rows' Margin Rate column.
group_category_quarter(frame) ==
  LET keycol == [i \in DOMAIN frame |-> <<frame[i].Category, frame[i].Quarter>>]
      keys == SortKeys(Range(keycol),
                       [k \in Range(keycol) |-> <<Rank(k[1])>> \o k[2]])
  IN  [n \in 1..Len(keys) |->
         LET I == { i \in 1..Len(frame) : keycol[i] = keys[n] }
         IN  [key |-> keys[n],
              Sales |-> SumOver(frame, "Sales", I),
              Quantity |-> SumOver(frame, "Quantity", I),
              Profit |-> SumOver(frame, "Profit", I),
              MarginRate |-> FracSumOver(frame, "MarginRate", I)]]

\* ---------------------------------------------------------------- ranking

\* All the lists that enumerate the set S once.
RECURSIVE Perms(_)
Perms(S) ==
  IF S = {} THEN {<<>>}
  ELSE UNION { { <<x>> \o p : p \in Perms(S \ {x}) } : x \in S }

\* The lists that enumerate the grouped rows G in descending order of kpi.
RECURSIVE DescendingOrders(_, _)
DescendingOrders(G, kpi) ==
  IF G = {} THEN {<<>>}
  ELSE LET top == { g \in G : \A h \in G : ~FracLess(KpiOf(g, kpi), KpiOf(h, kpi)) }
       IN  { p \o r : p \in Perms(top), r \in DescendingOrders(G \ top, kpi) }

Reverse(seq) == [i \in 1..Len(seq) |-> seq[Len(seq) + 1 - i]]

\* sort_values with ascending left at its default, True.
sort_values_ascending(view, kpi) ==
  { Reverse(order) : order \in DescendingOrders(Range(view), kpi) }

\* view.sort_values(by=kpi, ascending=False, inplace=True): the results the
\* sort can give.  sort_values is called without kind=, so it sorts with
\* quicksort, which is not stable: rows with equal values of kpi come out
\* in an order the library does not define.
sort_values(view, kpi) == DescendingOrders(Range(view), kpi)

\* frame.tail(n)
tail(frame, n) ==
  SubSeq(frame, IF Len(frame) < n THEN 1 ELSE Len(frame) - n + 1, Len(frame))

\* frame.head(n)
head(frame, n) == SubSeq(frame, 1, IF Len(frame) < n THEN Len(frame) ELSE n)

\* ------------------------------------------------------------------ state

VARIABLES
  cache,                \* st.cache_data's entry for load_data()
  pc,                   \* the widget the script is about to read
  df_original,
  all_regions, selected_region, df_filtered_region,
  all_states, selected_state, df_filtered_state,
  all_categories, selected_category, df_filtered_category,
  all_subcats, selected_subcat,
  all_segments, selected_segment,
  df,
  min_date, max_date, from_date, to_date,
  date_error,           \* st.sidebar.error was shown
  total_sales, total_quantity, total_profit, margin_rate,
  no_data_warning,      \* st.warning was shown
  selected_kpi,
  daily_grouped, product_grouped, top_10, year_segment_grouped,
  state_grouped, quarterly_grouped, quarterly_data, df_grouped_new

\* A name the script has not assigned yet in this run.
Unset == "unset"

region_vars == <<all_regions, selected_region, df_filtered_region>>
state_vars == <<all_states, selected_state, df_filtered_state>>
category_vars == <<all_categories, selected_category, df_filtered_category>>
subcat_vars == <<all_subcats, selected_subcat>>
segment_vars == <<all_segments, selected_segment>>
date_vars == <<min_date, max_date, from_date, to_date, date_error>>
kpi_vars == <<total_sales, total_quantity, total_profit, margin_rate>>
chart_vars ==
  <<selected_kpi, daily_grouped, product_grouped, top_10,
    year_segment_grouped, state_grouped, quarterly_grouped, quarterly_data,
    df_grouped_new>>

vars ==
  <<cache, pc, df_original, region_vars, state_vars, category_vars,
    subcat_vars, segment_vars, df, date_vars, kpi_vars, no_data_warning,
    chart_vars>>

\* The start of a run of the script over the cached workbook: load_data()
\* gives a copy of the cache entry and the Region options are computed.
StartRun(book) ==
  /\ cache = book
  /\ pc = "region"
  /\ df_original = book
  /\ all_regions = sorted(unique(book, "Region"))
  /\ selected_region = Unset /\ df_filtered_region = <<>>
  /\ all_states = <<>> /\ selected_state = Unset /\ df_filtered_state = <<>>
  /\ all_categories = <<>> /\ selected_category = Unset
  /\ df_filtered_category = <<>>
  /\ all_subcats = <<>> /\ selected_subcat = Unset
  /\ all_segments = <<>> /\ selected_segment = Unset
  /\ df = <<>>
  /\ min_date = Unset /\ max_date = Unset
  /\ from_date = Unset /\ to_date = Unset
  /\ date_error = FALSE
  /\ total_sales = Unset /\ total_quantity = Unset
  /\ total_profit = Unset /\ margin_rate = Unset
  /\ no_data_warning = FALSE
  /\ selected_kpi = Unset
  /\ daily_grouped = <<>> /\ product_grouped = <<>> /\ top_10 = <<>>
  /\ year_segment_grouped = <<>> /\ state_grouped = <<>>
  /\ quarterly_grouped = <<>> /\ quarterly_data = <<>>
  /\ df_grouped_new = <<>>

Init == \E book \in Workbooks : StartRun(book)

\* ---------------------------------------------------------------- actions

\* The Region select box returns r; the rows are filtered by Region and the
\* State options are computed.
SelectRegion ==
  /\ pc = "region"
  /\ \E r \in Range(selectbox_options(all_regions)) :
       LET filtered == filter_by(df_original, "Region", r)
       IN  /\ selected_region' = r
           /\ df_filtered_region' = filtered
           /\ all_states' = sorted(unique(filtered, "State"))
  /\ pc' = "state"
  /\ UNCHANGED <<cache, df_original, all_regions, selected_state,
                 df_filtered_state, category_vars, subcat_vars, segment_vars,
                 df, date_vars, kpi_vars, no_data_warning, chart_vars>>

SelectState ==
  /\ pc = "state"
  /\ \E st \in Range(selectbox_options(all_states)) :
       LET filtered == filter_by(df_filtered_region, "State", st)
       IN  /\ selected_state' = st
           /\ df_filtered_state' = filtered
           /\ all_categories' = sorted(unique(filtered, "Category"))
  /\ pc' = "category"
  /\ UNCHANGED <<cache, df_original, region_vars, all_states,
                 selected_category, df_filtered_category, subcat_vars,
                 segment_vars, df, date_vars, kpi_vars, no_data_warning,
                 chart_vars>>

SelectCategory ==
  /\ pc = "category"
  /\ \E c \in Range(selectbox_options(all_categories)) :
       LET filtered == filter_by(df_filtered_state, "Category", c)
       IN  /\ selected_category' = c
           /\ df_filtered_category' = filtered
           /\ all_subcats' = sorted(unique(filtered, "SubCategory"))
  /\ pc' = "subcat"
  /\ UNCHANGED <<cache, df_original, region_vars, state_vars, all_categories,
                 selected_subcat, segment_vars, df, date_vars, kpi_vars,
                 no_data_warning, chart_vars>>

\* df is a copy of df_filtered_category, filtered by Sub-Category.
SelectSubCategory ==
  /\ pc = "subcat"
  /\ \E sc \in Range(selectbox_options(all_subcats)) :
       LET filtered == filter_by(df_filtered_category, "SubCategory", sc)
       IN  /\ selected_subcat' = sc
           /\ df' = filtered
           /\ all_segments' = sorted(unique(filtered, "Segment"))
  /\ pc' = "segment"
  /\ UNCHANGED <<cache, df_original, region_vars, state_vars, category_vars,
                 all_subcats, selected_segment, date_vars, kpi_vars,
                 no_data_warning, chart_vars>>

\* df is filtered by Segment and the bounds of the date widgets are set.
SelectSegment ==
  /\ pc = "segment"
  /\ \E sg \in Range(selectbox_options(all_segments)) :
       LET filtered == filter_by(df, "Segment", sg)
           bounds == date_bounds(df_original, filtered)
       IN  /\ selected_segment' = sg
           /\ df' = filtered
           /\ min_date' = bounds.min_date
           /\ max_date' = bounds.max_date
  /\ pc' = "dates"
  /\ UNCHANGED <<cache, df_original, region_vars, state_vars, category_vars,
                 subcat_vars, all_segments, from_date, to_date, date_error,
                 kpi_vars, no_data_warning, chart_vars>>

\* The two date widgets return from and to (both within the offered
\* bounds); an inverted range is reported, the date filter is applied, the
\* KPI tiles are computed and, for an empty result, the warning is shown in
\* place of the charts.
PickDates ==
  /\ pc = "dates"
  /\ \E from \in { d \in Calendar : min_date <= d /\ d <= max_date } :
     \E to \in { d \in Calendar : min_date <= d /\ d <= max_date } :
       LET filtered == date_filter(df, from, to)
           kpis == kpi_calculation(filtered)
       IN  /\ from_date' = from
           /\ to_date' = to
           /\ date_error' = (from > to)
           /\ df' = filtered
           /\ total_sales' = kpis.total_sales
           /\ total_quantity' = kpis.total_quantity
           /\ total_profit' = kpis.total_profit
           /\ margin_rate' = kpis.margin_rate
           /\ no_data_warning' = (filtered = <<>>)
           /\ pc' = IF filtered = <<>> THEN "done" ELSE "kpi"
  /\ UNCHANGED <<cache, df_original, region_vars, state_vars, category_vars,
                 subcat_vars, segment_vars, min_date, max_date, chart_vars>>

\* The KPI radio returns kpi (df is not empty): the grouped views are built,
\* the products are ranked and the derived columns are written to df.
SelectKpi ==
  /\ pc = "kpi"
  /\ \E kpi \in Range(kpi_options) :
       LET rows == DOMAIN df
           ns0 == [df_original |-> df_original, df |-> df]
           ns1 == setitem(ns0, "df", "Year",
                          [i \in rows |-> YearOf(ns0.df[i].OrderDate)])
           ns2 == setitem(ns1, "df", "State",
                          [i \in rows |-> state_abbr(ns1.df[i].State)])
           ns3 == setitem(ns2, "df", "Quarter",
                          [i \in rows |-> QuarterOf(ns2.df[i].OrderDate)])
           ns4 == setitem(ns3, "df", "MarginRate",
                          [i \in rows |-> GroupMarginRate(ns3.df[i].Profit,
                                                          ns3.df[i].Sales)])
       IN  /\ selected_kpi' = kpi
           /\ daily_grouped' = group_daily(df)
           /\ \E ranked \in sort_values(group_product(df), kpi) :
                /\ product_grouped' = ranked
                /\ top_10' = head(ranked, TopN)
           /\ year_segment_grouped' = group_year_segment(ns1.df)
           /\ state_grouped' = group_state(ns2.df)
           /\ quarterly_grouped' = group_quarter(ns3.df)
           /\ quarterly_data' = group_quarter_category(ns3.df)
           /\ df_grouped_new' = group_category_quarter(ns4.df)
           /\ df' = ns4.df
           /\ df_original' = ns4.df_original
  /\ pc' = "done"
  /\ UNCHANGED <<cache, region_vars, state_vars, category_vars, subcat_vars,
                 segment_vars, date_vars, kpi_vars, no_data_warning>>

\* The next interaction: the script runs again from the top, load_data()
\* gives a copy of the cache entry and every other name is unassigned.
Rerun ==
  /\ pc = "done"
  /\ pc' = "region"
  /\ df_original' = cache
  /\ all_regions' = sorted(unique(cache, "Region"))
  /\ selected_region' = Unset /\ df_filtered_region' = <<>>
  /\ all_states' = <<>> /\ selected_state' = Unset /\ df_filtered_state' = <<>>
  /\ all_categories' = <<>> /\ selected_category' = Unset
  /\ df_filtered_category' = <<>>
  /\ all_subcats' = <<>> /\ selected_subcat' = Unset
  /\ all_segments' = <<>> /\ selected_segment' = Unset
  /\ df' = <<>>
  /\ min_date' = Unset /\ max_date' = Unset
  /\ from_date' = Unset /\ to_date' = Unset
  /\ date_error' = FALSE
  /\ total_sales' = Unset /\ total_quantity' = Unset
  /\ total_profit' = Unset /\ margin_rate' = Unset
  /\ no_data_warning' = FALSE
  /\ selected_kpi' = Unset
  /\ daily_grouped' = <<>> /\ product_grouped' = <<>> /\ top_10' = <<>>
  /\ year_segment_grouped' = <<>> /\ state_grouped' = <<>>
  /\ quarterly_grouped' = <<>> /\ quarterly_data' = <<>>
  /\ df_grouped_new' = <<>>
  /\ UNCHANGED cache

Next ==
  \/ SelectRegion
  \/ SelectState
  \/ SelectCategory
  \/ SelectSubCategory
  \/ SelectSegment
  \/ PickDates
  \/ SelectKpi
  \/ Rerun

Spec == Init /\ [][Next]_vars

\* ----------------------------------------------------------------- claims

\* The script has applied all its filters: the KPI radio is about to be
\* read (df is the filtered set), or the run ended with the warning.
Filtered == pc = "kpi" \/ (pc = "done" /\ no_data_warning)

\* The charts of this run have been built (df carries the derived columns).
ChartsBuilt == pc = "done" /\ ~no_data_warning

\* C1: the filtered set is a subset of the loaded dataset (its rows are rows
\* of df_original, each at most once, in order), every row equals each set
\* selector on its dimension and has its Order Date in [from_date, to_date].
C1_FilteredSetSatisfiesFilters ==
  Filtered =>
    /\ \A i \in DOMAIN df :
         /\ df[i].idx \in DOMAIN df_original
         /\ df[i] = df_original[df[i].idx]
         /\ selected_region # All => df[i].Region = selected_region
         /\ selected_state # All => df[i].State = selected_state
         /\ selected_category # All => df[i].Category = selected_category
         /\ selected_subcat # All => df[i].SubCategory = selected_subcat
         /\ selected_segment # All => df[i].Segment = selected_segment
         /\ from_date <= df[i].OrderDate
         /\ df[i].OrderDate <= to_date
    /\ \A i, j \in DOMAIN df : i < j => df[i].idx < df[j].idx

\* Every selector is set and the filters have removed rows but not all.
C1_Witness ==
  /\ pc = "kpi"
  /\ selected_region # All /\ selected_state # All /\ selected_category # All
  /\ selected_subcat # All /\ selected_segment # All
  /\ min_date < from_date
  /\ Len(df) >= 2
  /\ Len(df) < Len(df_original)

\* C2: the Margin Rate tile of a non-empty filtered set follows the policy
\* of the grouped views: it is total Profit / total Sales, and total Profit
\* (divisor 1) when total Sales is 0.
C2_TileFollowsGroupPolicy ==
  pc = "kpi" =>
    margin_rate = GroupMarginRate(sum(df, "Profit"), sum(df, "Sales"))

\* What the tile holds instead (line 143): total Profit / total Sales when
\* total Sales # 0, and 0 when total Sales is 0.
TileIsZeroWithoutSales ==
  pc = "kpi" =>
    /\ total_sales = sum(df, "Sales")
    /\ total_profit = sum(df, "Profit")
    /\ margin_rate = IF sum(df, "Sales") # 0
                     THEN Frac(sum(df, "Profit"), sum(df, "Sales"))
                     ELSE FracOfInt(0)

\* A non-empty filtered set with no sales and a profit.
ZeroSalesWithProfit ==
  /\ pc = "kpi"
  /\ sum(df, "Sales") = 0
  /\ sum(df, "Profit") # 0

\* The grouped view has one row per key of keycol (the key of each row of
\* df), holding the sums of the key's rows and the margin rate of the sums.
ViewIsAggregate(view, keycol) ==
  /\ { view[n].key : n \in DOMAIN view } = Range(keycol)
  /\ Len(view) = Cardinality(Range(keycol))
  /\ \A n \in DOMAIN view :
       LET I == { i \in DOMAIN df : keycol[i] = view[n].key }
           s == SumOver(df, "Sales", I)
           p == SumOver(df, "Profit", I)
       IN  /\ view[n].Sales = s
           /\ view[n].Quantity = SumOver(df, "Quantity", I)
           /\ view[n].Profit = p
           /\ view[n].MarginRate = IF s # 0 THEN Frac(p, s) ELSE FracOfInt(p)

\* The six grouped views of section 4.3 are aggregates of df.
SixViewsAreAggregates ==
  /\ ViewIsAggregate(daily_grouped, Column(df, "OrderDate"))
  /\ ViewIsAggregate(product_grouped, Column(df, "ProductName"))
  /\ ViewIsAggregate(year_segment_grouped,
                     [i \in DOMAIN df |-> <<df[i].Year, df[i].Segment>>])
  /\ ViewIsAggregate(state_grouped, Column(df, "State"))
  /\ ViewIsAggregate(quarterly_grouped, Column(df, "Quarter"))
  /\ ViewIsAggregate(quarterly_data,
                     [i \in DOMAIN df |-> <<df[i].Quarter, df[i].Category>>])

\* The part of C3 that holds: the six grouped views are aggregates.
C3_SixViews == ChartsBuilt => SixViewsAreAggregates

\* C3: in every grouped view the script builds, the Category+Quarter view of
\* the faceted chart included, each group's Sales, Quantity and Profit are
\* the sums over its rows and its Margin Rate is SumProfit / SumSales, or
\* SumProfit when SumSales is 0.
C3_EveryViewIsAggregate ==
  ChartsBuilt =>
    /\ SixViewsAreAggregates
    /\ ViewIsAggregate(df_grouped_new,
                       [i \in DOMAIN df |-> <<df[i].Category, df[i].Quarter>>])

\* C4: when the filtered set is empty the run has ended with the four KPIs
\* at 0, the warning shown and no grouped view holding a row.
C4_EmptySetGivesZeros ==
  (pc \in {"kpi", "done"} /\ df = <<>>) =>
    /\ pc = "done"
    /\ no_data_warning
    /\ total_sales = 0 /\ total_quantity = 0 /\ total_profit = 0
    /\ margin_rate = FracOfInt(0)
    /\ daily_grouped = <<>> /\ product_grouped = <<>> /\ top_10 = <<>>
    /\ year_segment_grouped = <<>> /\ state_grouped = <<>>
    /\ quarterly_grouped = <<>> /\ quarterly_data = <<>>
    /\ df_grouped_new = <<>>

\* A well-ordered date range that no row of the categorical result is in.
C4_Witness ==
  /\ pc = "done"
  /\ df = <<>>
  /\ from_date <= to_date

\* The position of the script: the number of the widget it is about to read.
StageNo ==
  CASE pc = "region" -> 1 [] pc = "state" -> 2 [] pc = "category" -> 3
    [] pc = "subcat" -> 4 [] pc = "segment" -> 5 [] pc = "dates" -> 6
    [] pc = "kpi" -> 7 [] pc = "done" -> 8

\* The rows of the loaded dataset that pass the selectors of the stages
\* before stage n.
NarrowedBefore(n) ==
  { r \in Range(cache) :
      /\ (n > 1 /\ selected_region # All) => r.Region = selected_region
      /\ (n > 2 /\ selected_state # All) => r.State = selected_state
      /\ (n > 3 /\ selected_category # All) => r.Category = selected_category
      /\ (n > 4 /\ selected_subcat # All) => r.SubCategory = selected_subcat }

\* The options built from values hold "All"; values are the distinct values
\* of col in rows, in ascending order, and there is one if there is a row.
OptionsAreDistinctSorted(values, rows, col) ==
  /\ All \in Range(selectbox_options(values))
  /\ rows # {} => Len(values) >= 1
  /\ Range(values) = { r[col] : r \in rows }
  /\ \A i, j \in DOMAIN values : i < j => Rank(values[i]) < Rank(values[j])

\* C5: at each of the five stages the options hold "All" and, in ascending
\* order, exactly the distinct values of the stage's dimension in the set
\* narrowed by the earlier stages (at least one when that set is not empty).
C5_CascadingOptions ==
  /\ OptionsAreDistinctSorted(all_regions, NarrowedBefore(1), "Region")
  /\ StageNo >= 2 =>
       OptionsAreDistinctSorted(all_states, NarrowedBefore(2), "State")
  /\ StageNo >= 3 =>
       OptionsAreDistinctSorted(all_categories, NarrowedBefore(3), "Category")
  /\ StageNo >= 4 =>
       OptionsAreDistinctSorted(all_subcats, NarrowedBefore(4), "SubCategory")
  /\ StageNo >= 5 =>
       OptionsAreDistinctSorted(all_segments, NarrowedBefore(5), "Segment")

\* The Segment options after a Region and a Category were picked that leave
\* fewer segments than the dataset has, listed in an order other than the
\* rows' order.
C5_Witness ==
  /\ pc = "segment"
  /\ selected_region # All
  /\ selected_category # All
  /\ Len(all_regions) >= 2
  /\ Len(all_segments) >= 2
  /\ df[1].Segment # all_segments[1]

\* C6: in each of the six grouped views the groups' Sales add up to the
\* total Sales tile of the same filtered set.
C6_GroupSalesAddUp ==
  pc = "done" =>
    /\ sum(daily_grouped, "Sales") = total_sales
    /\ sum(product_grouped, "Sales") = total_sales
    /\ sum(year_segment_grouped, "Sales") = total_sales
    /\ sum(state_grouped, "Sales") = total_sales
    /\ sum(quarterly_grouped, "Sales") = total_sales
    /\ sum(quarterly_data, "Sales") = total_sales

\* Views with several groups, one of them of several rows.
C6_Witness ==
  /\ ChartsBuilt
  /\ Len(product_grouped) >= 2
  /\ Len(product_grouped) < Len(df)
  /\ Len(quarterly_data) >= 2
  /\ Len(state_grouped) >= 2

\* The grouped rows of the products of df (unordered).
Products == Range(group_product(df))

\* C7: the top-10 list is in descending order of the selected KPI, has
\* min(10, number of distinct products) rows, all of them products of the
\* filtered set, and no product left out of it has a strictly greater KPI
\* value than a product in it.
C7_TopTenIsDescending ==
  ChartsBuilt =>
    LET value == [g \in Products |-> KpiOf(g, selected_kpi)]
        listed == [i \in DOMAIN top_10 |-> KpiOf(top_10[i], selected_kpi)]
    IN  /\ \A i, j \in DOMAIN top_10 :
             i < j => ~FracLess(listed[i], listed[j])
        /\ Len(top_10) = IF Cardinality(DOMAIN value) < TopN
                         THEN Cardinality(DOMAIN value) ELSE TopN
        /\ Range(top_10) \subseteq DOMAIN value
        /\ Cardinality(Range(top_10)) = Len(top_10)
        /\ \A out \in DOMAIN value \ Range(top_10) : \A i \in DOMAIN top_10 :
             ~FracLess(listed[i], value[out])

\* More than ten products: the list is cut.
C7_Witness ==
  /\ ChartsBuilt
  /\ Cardinality(Products) > TopN
  /\ Len(top_10) = TopN

\* C8 as claimed: products with equal values of the selected KPI appear in
\* the top-10 list in grouping-key order (ascending product name), and of a
\* group of tied products cut by the truncation the first by name survive.
C8_TiesInKeyOrder ==
  ChartsBuilt =>
    LET value == [g \in Products |-> KpiOf(g, selected_kpi)]
        listed == [i \in DOMAIN top_10 |-> KpiOf(top_10[i], selected_kpi)]
    IN  /\ \A i, j \in DOMAIN top_10 :
             (i < j /\ listed[i] = listed[j])
               => Rank(top_10[i].key) < Rank(top_10[j].key)
        /\ \A out \in DOMAIN value \ Range(top_10) : \A i \in DOMAIN top_10 :
             listed[i] = value[out] => Rank(top_10[i].key) < Rank(out.key)

\* C8 as amended: the filtered set and the selected KPI determine the list
\* of KPI values of the top-10 (its i-th value is the i-th greatest value of
\* the products) and the products above the last listed value, not the
\* order of products with equal values nor which of the products tied at the
\* last value are listed.
C8_RankingDeterminedUpToTies ==
  ChartsBuilt =>
    LET value == [g \in Products |-> KpiOf(g, selected_kpi)]
        listed == [i \in DOMAIN top_10 |-> KpiOf(top_10[i], selected_kpi)]
    IN  /\ \A i \in DOMAIN top_10 :
             /\ Cardinality({ g \in DOMAIN value :
                               FracLess(listed[i], value[g]) }) < i
             /\ Cardinality({ g \in DOMAIN value :
                               ~FracLess(value[g], listed[i]) }) >= i
        /\ top_10 # <<>> =>
             \A g \in DOMAIN value :
               FracLess(listed[Len(top_10)], value[g]) => g \in Range(top_10)

\* Two tied products listed against their key order.
C8_Witness ==
  /\ ChartsBuilt
  /\ \E i, j \in DOMAIN top_10 :
       /\ i < j
       /\ KpiOf(top_10[i], selected_kpi) = KpiOf(top_10[j], selected_kpi)
       /\ Rank(top_10[i].key) > Rank(top_10[j].key)

\* C9: the loaded dataset is never changed: in every state of every run
\* df_original is the dataset as loaded, and the State options offered are
\* State values of the loaded rows.
C9_OriginalUnchanged ==
  /\ df_original = cache
  /\ Range(all_states) \subseteq unique(cache, "State")

\* The derived columns were written, and the State column of the working
\* copy no longer holds what was loaded.
C9_Witness ==
  /\ ChartsBuilt
  /\ \E i \in DOMAIN df :
       /\ df[i].State # cache[df[i].idx].State
       /\ df[i].Year = YearOf(df[i].OrderDate)

\* C10: an inverted date range is reported and the run goes on to its end:
\* the date filter is applied with the bounds as given (no row passes), the
\* KPI tiles are computed (all 0) and the chart stage shows its warning.
C10_InvertedRangeIsReported ==
  (pc \in {"kpi", "done"} /\ from_date > to_date) =>
    /\ date_error
    /\ df = <<>>
    /\ pc = "done"
    /\ total_sales = 0 /\ total_quantity = 0 /\ total_profit = 0
    /\ margin_rate = FracOfInt(0)
    /\ no_data_warning

\* A run that ended after an inverted range over a set that has rows inside
\* the span of the two dates.
C10_Witness ==
  /\ pc = "done"
  /\ from_date > to_date
  /\ \E i \in DOMAIN cache :
       /\ to_date <= cache[i].OrderDate
       /\ cache[i].OrderDate <= from_date
       /\ selected_region = All /\ selected_state = All
       /\ selected_category = All /\ selected_subcat = All
       /\ selected_segment = All
=============================================================================
